---- MODULE Spec2Model ----
(***************************************************************************)
(* Medicine Reminder App (src/app.py): a Streamlit script that is re-run   *)
(* from top to bottom on every interaction of a browser session.  One      *)
(* action of this module is one run of the script for one session: the     *)
(* page selected in the sidebar plus at most one submitted widget.  Three  *)
(* kinds of run are more than one action, for what the other sessions of   *)
(* the process do meanwhile: the run that enters the "while True" loop of  *)
(* the Upload page (each turn of the loop is a step), a run that speaks    *)
(* (the isBusy() test, the call of say/runAndWait and its return are       *)
(* steps), and the Update submission of SpecRace (the read of the schedule *)
(* and the call of the store are steps).                                   *)
(*                                                                         *)
(* The stores of db.py are not part of src/; their operations are modelled *)
(* from sections 3, 4.1 and 4.2 of the specification.                      *)
(***************************************************************************)
EXTENDS Integers, Sequences, FiniteSets, TLC

VARIABLES
    users,              \* credential store: username -> password, or None
    schedules,          \* schedule store: owner -> sequence of entries
    logged_in,          \* st.session_state['logged_in'], per session
    user,               \* st.session_state['user'], per session
    vectorstore,        \* st.session_state.vectorstore, per session
    pc,                 \* per session: "idle", or where its run under way is
    recognized_speech,  \* content of recognized_speech.txt, or None
    reminders,          \* reminder store: owner -> sequence of rows
    engine,             \* the pyttsx3 engine: "free", or the session speaking
    locals,             \* per session: local variables of a run under way
    run                 \* what the most recent run of the script did

vars == <<users, schedules, logged_in, user, vectorstore, pc,
          recognized_speech, reminders, engine, locals, run>>

----------------------------------------------------------------------------
(* Bounds and input domains *)

Sessions == {"s1", "s2"}
Usernames == {"", "alice", "bob"}
Passwords == {"", "pw1", "pw2"}
None == "None"

Pages == {"Home", "Register", "Login", "Dashboard",
          "Schedule & Reminders", "Upload", "Voice Recognition"}

ProtectedPages == {"Dashboard", "Schedule & Reminders", "Upload",
                   "Voice Recognition"}

NoArgs == [none |-> TRUE]

(* the owners the schedule store may hold rows of: session user is None   *)
(* until a login                                                          *)
Owners == Usernames \cup {None}

(* most entries the schedule store holds, all owners together *)
MaxSchedule == 3

E1 == [medicine_name |-> "Aspirin", morning |-> TRUE, afternoon |-> FALSE,
       night |-> FALSE, dosage |-> "1 tablet"]
E2 == [medicine_name |-> "Aspirin", morning |-> FALSE, afternoon |-> TRUE,
       night |-> TRUE, dosage |-> "2 tablets"]
E3 == [medicine_name |-> "Ibuprofen", morning |-> FALSE, afternoon |-> FALSE,
       night |-> TRUE, dosage |-> "1 tablet"]
E4 == [medicine_name |-> "", morning |-> TRUE, afternoon |-> FALSE,
       night |-> FALSE, dosage |-> "1 tablet"]
E5 == [medicine_name |-> "Ibuprofen", morning |-> TRUE, afternoon |-> FALSE,
       night |-> FALSE, dosage |-> ""]

(* what the Add Medicine form and the edit forms are filled with *)
FormEntries == {E1, E2, E3, E4, E5}
EditEntries == {E1, E2, E3}
MedicineNames == {e.medicine_name : e \in FormEntries}

(* the files offered to the uploader: one that PdfReader rejects, a scan  *)
(* whose pages have no text layer, and two prescriptions                  *)
PDFs == {"malformed", "scanned", "rx1", "rx2"}

(* what the hosted model answers, or "raise" when the call fails *)
NoMedicines == "No medicines scheduled for now."
EvalOutcomes == {NoMedicines, "Take Aspirin now.", "raise"}

(* what a recording ends in *)
MicOutcomes == {"no microphone", "listen timeout", "UnknownValueError",
                "RequestError", "take my medicine", "hello"}
Transcripts == {"take my medicine", "hello"}

----------------------------------------------------------------------------
(* Python truthiness of a str: the empty string is falsy *)
Truthy(str) == str # ""

----------------------------------------------------------------------------
(* Credential store *)

(* the row login returns: (id, username, password); the page reads the   *)
(* username as user[1], the second column.  NoRecord is "nothing".        *)
UserRecord(u, p) == <<0, u, p>>
NoRecord == <<>>

register_user_overwrites(store, u, p) ==
    [ok |-> TRUE, users |-> [store EXCEPT ![u] = p]]

register_user(store, u, p) ==
    IF store[u] # None
    THEN [ok |-> FALSE, users |-> store]
    ELSE [ok |-> TRUE, users |-> [store EXCEPT ![u] = p]]

login_user(store, u, p) ==
    IF store[u] # None /\ store[u] = p THEN UserRecord(u, p) ELSE NoRecord

----------------------------------------------------------------------------
(* Schedule store *)

Entry(n, m, a, ni, d) ==
    [medicine_name |-> n, morning |-> m, afternoon |-> a, night |-> ni,
     dosage |-> d]

store_medicine_schedule(store, owner, e) ==
    [store EXCEPT ![owner] = Append(@, e)]

get_medicine_schedule(store, owner) == store[owner]

Matches(seq, n) == {i \in 1..Len(seq) : seq[i].medicine_name = n}

Min(S) == CHOOSE x \in S : \A y \in S : x <= y
Max(S) == CHOOSE x \in S : \A y \in S : x >= y

(* Under duplicate names the row an update reaches is not defined: the    *)
(* first match, the last match, or every match.                           *)
update_medicine_schedule(store, owner, n, e) ==
    LET seq == store[owner]
        hit == Matches(seq, n)
        at(I) == [store EXCEPT ![owner] =
                     [i \in 1..Len(seq) |-> IF i \in I THEN e ELSE seq[i]]]
    IN  IF hit = {} THEN {store}
        ELSE {at({Min(hit)}), at({Max(hit)}), at(hit)}

delete_medicine_schedule(store, owner, n) ==
    [store EXCEPT ![owner] = SelectSeq(@, LAMBDA e : e.medicine_name # n)]

Names(seq) == {seq[i].medicine_name : i \in 1..Len(seq)}

----------------------------------------------------------------------------
(* Reminder store *)

(* most rows the reminder store holds, all owners together *)
MaxReminders == 2

(* a row as the page reads it: reminder[0] the id, reminder[2] the        *)
(* medicine name, reminder[3] the time "HH:MM", reminder[4] the dosage    *)
ReminderRow(id, owner, n, t, d) ==
    [id |-> id, username |-> owner, medicine_name |-> n, time |-> t,
     dosage |-> d]

(* the id the store gives the next row: above every id it holds *)
NextReminderId(store) ==
    LET ids == {store[o][i].id : <<o, i>> \in
                  {<<o, i>> \in Owners \X (1..MaxReminders) :
                      i <= Len(store[o])}}
    IN  IF ids = {} THEN 1 ELSE Max(ids) + 1

store_reminder(store, owner, n, t, d) ==
    [store EXCEPT ![owner] =
        Append(@, ReminderRow(NextReminderId(store), owner, n, t, d))]

get_reminders(store, owner) == store[owner]

(* Under several rows of one medicine the row an update or a delete       *)
(* reaches is not defined: the first match, the last match, or every      *)
(* match.                                                                 *)
update_reminder(store, owner, n, t, d) ==
    LET seq == store[owner]
        hit == Matches(seq, n)
        at(I) == [store EXCEPT ![owner] =
                     [i \in 1..Len(seq) |->
                        IF i \in I THEN [seq[i] EXCEPT !.time = t,
                                                       !.dosage = d]
                        ELSE seq[i]]]
    IN  IF hit = {} THEN {store}
        ELSE {at({Min(hit)}), at({Max(hit)}), at(hit)}

delete_reminder(store, owner, n) ==
    LET seq == store[owner]
        hit == Matches(seq, n)
        without(I) == [store EXCEPT ![owner] =
                          SelectSeq(seq, LAMBDA r : \A i \in I : seq[i] # r)]
    IN  IF hit = {} THEN {store}
        ELSE {without({Min(hit)}), without({Max(hit)}), without(hit)}

----------------------------------------------------------------------------
(* The widgets of the reminder forms *)

(* what the time inputs are set to: (hour, minute) *)
Times == {<<8, 5>>, <<20, 30>>}

(* strftime("%H:%M"): hour and minute, two digits each *)
Digit(d) == <<"0", "1", "2", "3", "4", "5", "6", "7", "8", "9">>[d + 1]
TwoDigits(k) == Digit(k \div 10) \o Digit(k % 10)
strftime(t) == TwoDigits(t[1]) \o ":" \o TwoDigits(t[2])

(* what "Edit Dosage" of a reminder is set to *)
EditDosages == {"half a tablet"}

(* st.selectbox: the option chosen in the browser when the options still  *)
(* hold it, the first option otherwise; None without options              *)
selectbox(options, choice) ==
    IF options = <<>> THEN None
    ELSE IF \E i \in 1..Len(options) : options[i] = choice THEN choice
    ELSE options[1]

(* line 607 *)
MedicineOptions(schedule) ==
    [i \in 1..Len(schedule) |-> schedule[i].medicine_name]

next_dosage_head(schedule, n) == schedule[1].dosage

(* lines 610-611: the dosage of the first item of that name *)
next_dosage(schedule, n) == schedule[Min(Matches(schedule, n))].dosage

----------------------------------------------------------------------------
(* Document indexer: the calls of the Upload page into PyPDF2, the text   *)
(* splitter and FAISS, for the files of PDFs                              *)

(* PdfReader(pdf) raises on a file that is no PDF *)
PdfReader_ok(pdf) == pdf # "malformed"

(* page.extract_text() of each page *)
extract_text(pdf) ==
    CASE pdf = "scanned" -> <<"", "">>
      [] pdf = "rx1" -> <<"Aspirin 1 tablet morning">>
      [] pdf = "rx2" -> <<"Ibuprofen 1 tablet ", "night">>
      [] OTHER -> <<>>

(* text = ""; for page in pages: text += page.extract_text() *)
RECURSIVE Concat(_)
Concat(pages) ==
    IF pages = <<>> THEN "" ELSE Head(pages) \o Concat(Tail(pages))

(* split_text: a text shorter than chunk_size is one chunk, and an empty  *)
(* text has no chunk                                                      *)
split_text(text) == IF text = "" THEN <<>> ELSE <<text>>

(* FAISS.from_texts takes the dimension from the first embedding, and     *)
(* raises IndexError when there is none                                   *)
from_texts_ok(texts) == texts # <<>>
from_texts(texts) == [kind |-> "FAISS", chunks |-> texts]

(* the other values of session vectorstore: the key not set, and None;    *)
(* Raised stands for an ingest that ended in an exception                 *)
Unset == [kind |-> "unset", chunks |-> <<>>]
NoIndex == [kind |-> "None", chunks |-> <<>>]
Raised == [kind |-> "raise", chunks |-> <<>>]

ingest_emptyIndex(pdf) ==
    IF ~PdfReader_ok(pdf) THEN Raised
    ELSE from_texts(split_text(Concat(extract_text(pdf))))

(* lines 672-682: the value assigned to session vectorstore, or Raised *)
ingest(pdf) ==
    IF ~PdfReader_ok(pdf) THEN Raised
    ELSE LET texts == split_text(Concat(extract_text(pdf)))
         IN  IF from_texts_ok(texts) THEN from_texts(texts) ELSE Raised

----------------------------------------------------------------------------
(* The record of a run *)

RunRecord(s, page, event, args, gate, ops, msgs, outcome, body, pagevar) ==
    [sess |-> s, page |-> page, event |-> event, args |-> args,
     gate |-> gate, ops |-> ops, msgs |-> msgs, outcome |-> outcome,
     body |-> body, pagevar |-> pagevar, listed |-> <<>>, failed |-> {},
     evals |-> 0]

(* a run of a page behind the authentication gate, refused: only the      *)
(* warning is shown and the local variable page is set to "Login"         *)
Refused(s, page) ==
    RunRecord(s, page, "none", NoArgs, logged_in[s], {},
              {"You need to log in"}, "completed", "warning", "Login")

(* no run of the session is under way *)
NoLocals == [kind |-> "none"]

NoRun ==
    RunRecord(None, None, "none", NoArgs, FALSE, {}, {}, "completed", None,
              None)

(* a fresh database and fresh sessions: lines 97-102 *)
Init ==
    /\ users = [u \in Usernames |-> None]
    /\ schedules = [u \in Owners |-> <<>>]
    /\ logged_in = [s \in Sessions |-> FALSE]
    /\ user = [s \in Sessions |-> None]
    /\ vectorstore = [s \in Sessions |-> Unset]
    /\ pc = [s \in Sessions |-> "idle"]
    /\ recognized_speech = None
    /\ reminders = [u \in Owners |-> <<>>]
    /\ engine = "free"
    /\ locals = [s \in Sessions |-> NoLocals]
    /\ run = NoRun

(* The database outlives the process: a later start of the application    *)
(* finds the accounts earlier registrations left.                         *)
RegisteredUsers == [u \in Usernames |->
                      CASE u = "alice" -> "pw1" [] u = "bob" -> "pw2"
                        [] OTHER -> None]

InitRegistered ==
    /\ users = RegisteredUsers
    /\ schedules = [u \in Owners |-> <<>>]
    /\ logged_in = [s \in Sessions |-> FALSE]
    /\ user = [s \in Sessions |-> None]
    /\ vectorstore = [s \in Sessions |-> Unset]
    /\ pc = [s \in Sessions |-> "idle"]
    /\ recognized_speech = None
    /\ reminders = [u \in Owners |-> <<>>]
    /\ engine = "free"
    /\ locals = [s \in Sessions |-> NoLocals]
    /\ run = NoRun

----------------------------------------------------------------------------
(* Home page *)
HomeRun(s) ==
    /\ pc[s] = "idle"
    /\ run' = RunRecord(s, "Home", "none", NoArgs, logged_in[s], {}, {},
                        "completed", "Home", "Home")
    /\ UNCHANGED <<users, schedules, logged_in, user, vectorstore, pc,
                   recognized_speech, reminders, engine, locals>>

(* Login page *)
LoginRun(s) ==
    /\ pc[s] = "idle"
    /\ run' = RunRecord(s, "Login", "none", NoArgs, logged_in[s], {}, {},
                        "completed", "Login", "Login")
    /\ UNCHANGED <<users, schedules, logged_in, user, vectorstore, pc,
                   recognized_speech, reminders, engine, locals>>

LoginSubmit_usernameOnly(s, login_username, login_password) ==
    LET args == [username |-> login_username, password |-> login_password]
    IN  /\ pc[s] = "idle"
        /\ IF users[login_username] # None
           THEN /\ logged_in' = [logged_in EXCEPT ![s] = TRUE]
                /\ user' = [user EXCEPT ![s] = login_username]
                /\ run' = RunRecord(s, "Login", "Login", args, logged_in[s],
                                    {"login_user"}, {"Welcome"}, "completed",
                                    "Login", "Home")
           ELSE /\ UNCHANGED <<logged_in, user>>
                /\ run' = RunRecord(s, "Login", "Login", args, logged_in[s],
                                    {"login_user"},
                                    {"Invalid username or password"},
                                    "completed", "Login", "Login")
        /\ UNCHANGED <<users, schedules, vectorstore, pc, recognized_speech,
                       reminders, engine, locals>>

LoginSubmit_failureLogsOut(s, login_username, login_password) ==
    LET rec == login_user(users, login_username, login_password)
        args == [username |-> login_username, password |-> login_password]
    IN  /\ pc[s] = "idle"
        /\ IF rec # NoRecord
           THEN /\ logged_in' = [logged_in EXCEPT ![s] = TRUE]
                /\ user' = [user EXCEPT ![s] = rec[2]]
                /\ run' = RunRecord(s, "Login", "Login", args, logged_in[s],
                                    {"login_user"}, {"Welcome"}, "completed",
                                    "Login", "Home")
           ELSE /\ logged_in' = [logged_in EXCEPT ![s] = FALSE]
                /\ user' = [user EXCEPT ![s] = None]
                /\ run' = RunRecord(s, "Login", "Login", args, logged_in[s],
                                    {"login_user"},
                                    {"Invalid username or password"},
                                    "completed", "Login", "Login")
        /\ UNCHANGED <<users, schedules, vectorstore, pc, recognized_speech,
                       reminders, engine, locals>>

LoginSubmit(s, login_username, login_password) ==
    LET rec == login_user(users, login_username, login_password)
        args == [username |-> login_username, password |-> login_password]
    IN  /\ pc[s] = "idle"
        /\ IF rec # NoRecord
           THEN /\ logged_in' = [logged_in EXCEPT ![s] = TRUE]
                /\ user' = [user EXCEPT ![s] = rec[2]]
                /\ run' = RunRecord(s, "Login", "Login", args, logged_in[s],
                                    {"login_user"}, {"Welcome"}, "completed",
                                    "Login", "Home")
           ELSE /\ UNCHANGED <<logged_in, user>>
                /\ run' = RunRecord(s, "Login", "Login", args, logged_in[s],
                                    {"login_user"},
                                    {"Invalid username or password"},
                                    "completed", "Login", "Login")
        /\ UNCHANGED <<users, schedules, vectorstore, pc, recognized_speech,
                       reminders, engine, locals>>

(* Register page *)
RegisterRun(s) ==
    /\ pc[s] = "idle"
    /\ run' = RunRecord(s, "Register", "none", NoArgs, logged_in[s], {}, {},
                        "completed", "Register", "Register")
    /\ UNCHANGED <<users, schedules, logged_in, user, vectorstore, pc,
                   recognized_speech, reminders, engine, locals>>

RegisterSubmit(s, username, password, confirm_password) ==
    LET args == [username |-> username, password |-> password,
                 confirm_password |-> confirm_password]
        res == register_user(users, username, password)
    IN  /\ pc[s] = "idle"
        /\ IF password # confirm_password
           THEN /\ UNCHANGED users
                /\ run' = RunRecord(s, "Register", "Register", args,
                                    logged_in[s], {},
                                    {"Passwords do not match!"}, "completed",
                                    "Register", "Register")
           ELSE /\ users' = res.users
                /\ run' = RunRecord(s, "Register", "Register", args,
                                    logged_in[s], {"register_user"},
                                    IF res.ok
                                    THEN {"registered successfully!"}
                                    ELSE {"Username already exists!"},
                                    "completed", "Register", "Register")
        /\ UNCHANGED <<schedules, logged_in, user, vectorstore, pc,
                       recognized_speech, reminders, engine, locals>>

----------------------------------------------------------------------------
(* the gates of lines 348, 529, 660 and 719 *)
DashboardGate(s) == logged_in[s]
ScheduleGate(s) == logged_in[s]
UploadGate_open(s) == TRUE
UploadGate(s) == logged_in[s]
VoiceGate(s) == logged_in[s]

----------------------------------------------------------------------------
(* Dashboard *)
DashboardRun(s) ==
    /\ pc[s] = "idle"
    /\ run' = IF ~DashboardGate(s) THEN Refused(s, "Dashboard")
              ELSE [RunRecord(s, "Dashboard", "none", NoArgs, logged_in[s],
                              {"get_medicine_schedule", "get_reminders"},
                              {}, "completed", "Dashboard", "Dashboard")
                    EXCEPT !.listed = get_medicine_schedule(schedules, user[s])]
    /\ UNCHANGED <<users, schedules, logged_in, user, vectorstore, pc,
                   recognized_speech, reminders, engine, locals>>

----------------------------------------------------------------------------
(* Schedule & Reminders *)

TotalEntries ==
    Cardinality({<<u, i>> \in Owners \X (1..MaxSchedule) :
                    i <= Len(schedules[u])})


(* The forms of the listing are keyed by medicine name (lines 571, 596).  *)
(* Streamlit refuses a second form of a key already used in the run: the  *)
(* loop of line 563 ends in an exception at the first item whose name an  *)
(* earlier item has, and only the items before it get their forms.        *)
FirstRepeat(seq) ==
    LET rep == {j \in 1..Len(seq) :
                  \E i \in 1..(j - 1) :
                      seq[i].medicine_name = seq[j].medicine_name}
    IN  IF rep = {} THEN Len(seq) + 1 ELSE Min(rep)

RenderedNames(seq) ==
    {seq[i].medicine_name : i \in 1..(FirstRepeat(seq) - 1)}

(* The part of a run after the Add Medicine form, given the store as the  *)
(* form's handling left it.  With nothing listed, the reminder form's     *)
(* next(...) over the empty schedule raises StopIteration.  Nothing       *)
(* catches either exception, and the reminders are not read.              *)
ScheduleBody(s, event, args, store, ops, msgs) ==
    LET schedule == get_medicine_schedule(store, user[s])
        raised == IF FirstRepeat(schedule) <= Len(schedule) THEN {"st.form"}
                  ELSE IF schedule = <<>> THEN {"next"} ELSE {}
    IN  [RunRecord(s, "Schedule & Reminders", event, args, logged_in[s],
                   ops \cup {"get_medicine_schedule"}
                       \cup (IF raised = {} THEN {"get_reminders"} ELSE {}),
                   msgs,
                   IF raised = {} THEN "completed" ELSE "uncaught",
                   "Schedule & Reminders", "Schedule & Reminders")
         EXCEPT !.listed = schedule, !.failed = raised]

ScheduleRun(s) ==
    /\ pc[s] = "idle"
    /\ run' = IF ~ScheduleGate(s) THEN Refused(s, "Schedule & Reminders")
              ELSE ScheduleBody(s, "none", NoArgs, schedules, {}, {})
    /\ UNCHANGED <<users, schedules, logged_in, user, vectorstore, pc,
                   recognized_speech, reminders, engine, locals>>

AddMedicine_swapped(s, e) ==
    /\ pc[s] = "idle"
    /\ (ScheduleGate(s) /\ Truthy(e.medicine_name) /\ Truthy(e.dosage))
       => TotalEntries < MaxSchedule
    /\ IF ~ScheduleGate(s)
       THEN /\ UNCHANGED schedules
            /\ run' = Refused(s, "Schedule & Reminders")
       ELSE IF Truthy(e.medicine_name) /\ Truthy(e.dosage)
       THEN /\ schedules' = store_medicine_schedule(schedules, user[s],
                                Entry(e.medicine_name, e.afternoon, e.morning,
                                      e.night, e.dosage))
            /\ run' = ScheduleBody(s, "Add Medicine", e, schedules',
                                   {"store_medicine_schedule"},
                                   {"schedule added successfully!"})
       ELSE /\ UNCHANGED schedules
            /\ run' = ScheduleBody(s, "Add Medicine", e, schedules, {},
                         {"Please enter a valid medicine name and dosage."})
    /\ UNCHANGED <<users, logged_in, user, vectorstore, pc, recognized_speech,
                   reminders, engine, locals>>

AddMedicine(s, e) ==
    /\ pc[s] = "idle"
    /\ (ScheduleGate(s) /\ Truthy(e.medicine_name) /\ Truthy(e.dosage))
       => TotalEntries < MaxSchedule
    /\ IF ~ScheduleGate(s)
       THEN /\ UNCHANGED schedules
            /\ run' = Refused(s, "Schedule & Reminders")
       ELSE IF Truthy(e.medicine_name) /\ Truthy(e.dosage)
       THEN /\ schedules' = store_medicine_schedule(schedules, user[s],
                                Entry(e.medicine_name, e.morning, e.afternoon,
                                      e.night, e.dosage))
            /\ run' = ScheduleBody(s, "Add Medicine", e, schedules',
                                   {"store_medicine_schedule"},
                                   {"schedule added successfully!"})
       ELSE /\ UNCHANGED schedules
            /\ run' = ScheduleBody(s, "Add Medicine", e, schedules, {},
                         {"Please enter a valid medicine name and dosage."})
    /\ UNCHANGED <<users, logged_in, user, vectorstore, pc, recognized_speech,
                   reminders, engine, locals>>

(* The forms of an item exist only in a run that lists the item; the      *)
(* schedule the run lists is the one read before the update or delete.    *)
UpdateMedicine(s, n, e) ==
    /\ pc[s] = "idle"
    /\ n \in RenderedNames(get_medicine_schedule(schedules, user[s]))
    /\ IF ~ScheduleGate(s)
       THEN /\ UNCHANGED schedules
            /\ run' = Refused(s, "Schedule & Reminders")
       ELSE /\ schedules' \in update_medicine_schedule(schedules, user[s], n,
                                 Entry(e.medicine_name, e.morning, e.afternoon,
                                       e.night, e.dosage))
            /\ run' = ScheduleBody(s, "Update", [name |-> n, entry |-> e],
                                   schedules, {"update_medicine_schedule"},
                                   {"updated successfully!"})
    /\ UNCHANGED <<users, logged_in, user, vectorstore, pc, recognized_speech,
                   reminders, engine, locals>>

(* The same Update submission in two steps, for what other sessions do   *)
(* in between: UpdateRead is the run from line 561, where it reads the    *)
(* schedule, to the submitted form of item n; UpdateWrite is the call of  *)
(* line 592 and the rest of the run, which goes on listing the schedule   *)
(* it read.  Nothing is read again before the call.                       *)
UpdateLocals(schedule, n, e) ==
    [kind |-> "update", schedule |-> schedule, name |-> n, entry |-> e]

UpdateRead(s, n, e) ==
    LET schedule == get_medicine_schedule(schedules, user[s])
    IN  /\ pc[s] = "idle"
        /\ ScheduleGate(s)
        /\ n \in RenderedNames(schedule)
        /\ pc' = [pc EXCEPT ![s] = "update"]
        /\ locals' = [locals EXCEPT ![s] = UpdateLocals(schedule, n, e)]
        /\ run' = [RunRecord(s, "Schedule & Reminders", "Update form",
                             [name |-> n, entry |-> e], logged_in[s],
                             {"get_medicine_schedule"}, {}, "running",
                             "Schedule & Reminders", "Schedule & Reminders")
                   EXCEPT !.listed = schedule]
        /\ UNCHANGED <<users, schedules, logged_in, user, vectorstore,
                       recognized_speech, reminders, engine>>

UpdateWrite_rechecks(s) ==
    LET l == locals[s]
        present == l.name \in Names(get_medicine_schedule(schedules, user[s]))
        args == [name |-> l.name, entry |-> l.entry, present |-> present]
        read == [schedules EXCEPT ![user[s]] = l.schedule]
    IN  /\ pc[s] = "update"
        /\ IF present
           THEN /\ schedules' \in
                     update_medicine_schedule(schedules, user[s], l.name,
                         Entry(l.entry.medicine_name, l.entry.morning,
                               l.entry.afternoon, l.entry.night,
                               l.entry.dosage))
                /\ run' = ScheduleBody(s, "Update", args, read,
                                       {"update_medicine_schedule"},
                                       {"updated successfully!"})
           ELSE /\ UNCHANGED schedules
                /\ run' = ScheduleBody(s, "Update", args, read, {}, {})
        /\ pc' = [pc EXCEPT ![s] = "idle"]
        /\ locals' = [locals EXCEPT ![s] = NoLocals]
        /\ UNCHANGED <<users, logged_in, user, vectorstore,
                       recognized_speech, reminders, engine>>

UpdateWrite(s) ==
    LET l == locals[s]
        present == l.name \in Names(get_medicine_schedule(schedules, user[s]))
        args == [name |-> l.name, entry |-> l.entry, present |-> present]
        read == [schedules EXCEPT ![user[s]] = l.schedule]
    IN  /\ pc[s] = "update"
        /\ schedules' \in
             update_medicine_schedule(schedules, user[s], l.name,
                 Entry(l.entry.medicine_name, l.entry.morning,
                       l.entry.afternoon, l.entry.night, l.entry.dosage))
        /\ run' = ScheduleBody(s, "Update", args, read,
                               {"update_medicine_schedule"},
                               {"updated successfully!"})
        /\ pc' = [pc EXCEPT ![s] = "idle"]
        /\ locals' = [locals EXCEPT ![s] = NoLocals]
        /\ UNCHANGED <<users, logged_in, user, vectorstore,
                       recognized_speech, reminders, engine>>

DeleteMedicine_firstItem(s, n) ==
    /\ pc[s] = "idle"
    /\ n \in RenderedNames(get_medicine_schedule(schedules, user[s]))
    /\ IF ~ScheduleGate(s)
       THEN /\ UNCHANGED schedules
            /\ run' = Refused(s, "Schedule & Reminders")
       ELSE /\ schedules' = delete_medicine_schedule(schedules, user[s],
                   get_medicine_schedule(schedules, user[s])[1].medicine_name)
            /\ run' = ScheduleBody(s, "Delete", [name |-> n], schedules,
                                   {"delete_medicine_schedule"},
                                   {"deleted successfully!"})
    /\ UNCHANGED <<users, logged_in, user, vectorstore, pc, recognized_speech,
                   reminders, engine, locals>>

DeleteMedicine(s, n) ==
    /\ pc[s] = "idle"
    /\ n \in RenderedNames(get_medicine_schedule(schedules, user[s]))
    /\ IF ~ScheduleGate(s)
       THEN /\ UNCHANGED schedules
            /\ run' = Refused(s, "Schedule & Reminders")
       ELSE /\ schedules' = delete_medicine_schedule(schedules, user[s], n)
            /\ run' = ScheduleBody(s, "Delete", [name |-> n], schedules,
                                   {"delete_medicine_schedule"},
                                   {"deleted successfully!"})
    /\ UNCHANGED <<users, logged_in, user, vectorstore, pc, recognized_speech,
                   reminders, engine, locals>>

(* "Set Reminder" (lines 604-618), chosen in the browser: the medicine    *)
(* choice and the time t.  The run first lists the schedule it read at    *)
(* line 561; an exception there, or in next(...) at line 610, ends the    *)
(* run before line 614.                                                   *)
TotalReminders ==
    Cardinality({<<u, i>> \in Owners \X (1..MaxReminders) :
                    i <= Len(reminders[u])})

SetReminder(s, choice, t) ==
    LET schedule == get_medicine_schedule(schedules, user[s])
        reached == FirstRepeat(schedule) > Len(schedule) /\ schedule # <<>>
        reminder_medicine_name == selectbox(MedicineOptions(schedule), choice)
        args == [choice |-> choice, time |-> t]
    IN  /\ pc[s] = "idle"
        /\ (ScheduleGate(s) /\ reached)
           => /\ TotalReminders < MaxReminders
              /\ NextReminderId(reminders) <= MaxReminders + 1
        /\ IF ~ScheduleGate(s)
           THEN /\ UNCHANGED reminders
                /\ run' = Refused(s, "Schedule & Reminders")
           ELSE IF ~reached
           THEN /\ UNCHANGED reminders
                /\ run' = ScheduleBody(s, "Set Reminder", args, schedules,
                                       {}, {})
           ELSE /\ reminders' =
                     store_reminder(reminders, user[s],
                         reminder_medicine_name, strftime(t),
                         next_dosage(schedule, reminder_medicine_name))
                /\ run' = ScheduleBody(s, "Set Reminder", args, schedules,
                                       {"store_reminder"}, {"Reminder set"})
        /\ UNCHANGED <<users, schedules, logged_in, user, vectorstore, pc,
                       recognized_speech, engine, locals>>

(* The forms of a reminder (lines 633, 648) are keyed by its id and exist *)
(* only in a run that reaches line 622 and lists the reminder.            *)
ReminderIds(seq) == {seq[i].id : i \in 1..Len(seq)}
ReminderOfId(seq, id) == seq[CHOOSE i \in 1..Len(seq) : seq[i].id = id]

UpdateReminder(s, id, t, edit_dosage) ==
    LET schedule == get_medicine_schedule(schedules, user[s])
        listed == get_reminders(reminders, user[s])
    IN  /\ pc[s] = "idle"
        /\ FirstRepeat(schedule) > Len(schedule) /\ schedule # <<>>
        /\ id \in ReminderIds(listed)
        /\ IF ~ScheduleGate(s)
           THEN /\ UNCHANGED reminders
                /\ run' = Refused(s, "Schedule & Reminders")
           ELSE /\ reminders' \in
                     update_reminder(reminders, user[s],
                         ReminderOfId(listed, id).medicine_name,
                         strftime(t), edit_dosage)
                /\ run' = ScheduleBody(s, "Update Reminder",
                              [id |-> id, time |-> t, dosage |-> edit_dosage],
                              schedules, {"update_reminder"},
                              {"Reminder updated successfully!"})
        /\ UNCHANGED <<users, schedules, logged_in, user, vectorstore, pc,
                       recognized_speech, engine, locals>>

DeleteReminder(s, id) ==
    LET schedule == get_medicine_schedule(schedules, user[s])
        listed == get_reminders(reminders, user[s])
    IN  /\ pc[s] = "idle"
        /\ FirstRepeat(schedule) > Len(schedule) /\ schedule # <<>>
        /\ id \in ReminderIds(listed)
        /\ IF ~ScheduleGate(s)
           THEN /\ UNCHANGED reminders
                /\ run' = Refused(s, "Schedule & Reminders")
           ELSE /\ reminders' \in
                     delete_reminder(reminders, user[s],
                         ReminderOfId(listed, id).medicine_name)
                /\ run' = ScheduleBody(s, "Delete Reminder", [id |-> id],
                              schedules, {"delete_reminder"},
                              {"Reminder deleted successfully!"})
        /\ UNCHANGED <<users, schedules, logged_in, user, vectorstore, pc,
                       recognized_speech, engine, locals>>

----------------------------------------------------------------------------
(* Upload *)

(* The value of session vectorstore when the run leaves lines 666-684:    *)
(* vs0 is what it held at line 669, made what the ingest produced.  The   *)
(* assignment of line 682 is the last statement of the ingest that can    *)
(* fail, and it replaces the value.                                       *)
session_vectorstore_merged(vs0, made) ==
    IF made = Raised THEN vs0
    ELSE IF vs0.kind = "FAISS" /\ Len(vs0.chunks) = 1
    THEN from_texts(vs0.chunks \o made.chunks)
    ELSE made

session_vectorstore_cleared(vs0, made) ==
    IF made = Raised THEN NoIndex ELSE made

session_vectorstore(vs0, made) ==
    IF made = Raised THEN vs0 ELSE made

(* the locals of a run that has passed the isBusy() test of line 699      *)
(* (path "button") or of line 713 (path "loop") and has yet to speak      *)
SpeakLocals(path, auto_check, reminder) ==
    [kind |-> "speak", path |-> path, auto_check |-> auto_check,
     reminder |-> reminder]

(* engine.isBusy() on the engine of line 29, which pyttsx3.init() hands   *)
(* to every run of the process while a run holds it                       *)
isBusy == engine # "free"

(* One run of the Upload page, up to the isBusy() test of line 699.  pdf  *)
(* is what the uploader holds (None when empty), click the "Check         *)
(* Medicine Schedule" button, auto_check the checkbox, answer what        *)
(* check_medicine_time returns ("raise" when the call fails) and busy     *)
(* what engine.isBusy() returns.  The uploader exists once a run of the   *)
(* page has set session vectorstore; the button and the checkbox exist    *)
(* only in a run that reaches line 687 with an index.                     *)
UploadRun(s, pdf, click, auto_check, answer, busy) ==
    LET args == [pdf |-> pdf, click |-> click, auto_check |-> auto_check,
                 answer |-> answer, busy |-> busy]
        vs0 == IF vectorstore[s] = Unset THEN NoIndex ELSE vectorstore[s]
        made == IF pdf = None THEN vs0 ELSE ingest(pdf)
        reached == made # Raised /\ made # NoIndex
        tested == click /\ answer # "raise" /\ answer # NoMedicines
    IN  /\ pc[s] = "idle"
        /\ pdf # None => vectorstore[s] # Unset
        /\ ~click => answer = NoMedicines
        /\ busy = (tested /\ isBusy)
        /\ ~reached => ~click /\ ~auto_check
        /\ IF ~UploadGate(s)
           THEN /\ run' = Refused(s, "Upload")
                /\ UNCHANGED <<vectorstore, pc, locals>>
           ELSE IF made = Raised
           THEN /\ vectorstore' = [vectorstore EXCEPT
                                      ![s] = session_vectorstore(vs0, made)]
                /\ run' = [RunRecord(s, "Upload", "upload", args,
                                     logged_in[s], {"ingest"}, {}, "uncaught",
                                     "Upload", "Upload")
                           EXCEPT !.failed = {"ingest"}]
                /\ UNCHANGED <<pc, locals>>
           ELSE /\ vectorstore' = [vectorstore EXCEPT
                                      ![s] = session_vectorstore(vs0, made)]
                /\ pc' = IF tested /\ ~busy THEN [pc EXCEPT ![s] = "say"]
                         ELSE IF auto_check
                         THEN [pc EXCEPT ![s] = "autoloop"]
                         ELSE pc
                /\ locals' = IF tested /\ ~busy
                             THEN [locals EXCEPT ![s] =
                                     SpeakLocals("button", auto_check, answer)]
                             ELSE locals
                /\ run' = [RunRecord(s, "Upload",
                              IF click THEN "Check Medicine Schedule"
                              ELSE IF pdf # None THEN "upload" ELSE "none",
                              args, logged_in[s],
                              (IF pdf # None THEN {"ingest"} ELSE {})
                                \cup (IF click THEN {"check_medicine_time"}
                                      ELSE {}),
                              (IF pdf # None
                               THEN {"PDF uploaded and processed successfully!"}
                               ELSE {})
                                \cup (IF click /\ answer = "raise"
                                      THEN {"Error"} ELSE {})
                                \cup (IF click /\ answer # "raise"
                                      THEN {answer} ELSE {}),
                              IF tested /\ ~busy THEN "running"
                              ELSE IF auto_check THEN "looping"
                              ELSE "completed",
                              "Upload", "Upload")
                           EXCEPT !.failed = IF click /\ answer = "raise"
                                             THEN {"check_medicine_time"}
                                             ELSE {},
                                  !.evals = IF click THEN 1 ELSE 0]
        /\ UNCHANGED <<users, schedules, logged_in, user, recognized_speech,
                       reminders, engine>>

(* One turn of the loop of lines 709-716, up to the isBusy() test of line *)
(* 713.  A call that raises leaves the loop and the run through the       *)
(* exception, which nothing catches.                                      *)
AutoCheckIteration_once(s, answer, busy) ==
    /\ pc[s] = "autoloop"
    /\ busy = (answer # "raise" /\ isBusy)
    /\ pc' = [pc EXCEPT ![s] = "idle"]
    /\ run' = [RunRecord(s, "Upload", "auto_check",
                         [answer |-> answer, busy |-> busy], logged_in[s],
                         {"check_medicine_time"},
                         IF answer = "raise" THEN {} ELSE {answer},
                         IF answer = "raise" THEN "uncaught" ELSE "completed",
                         "Upload", "Upload")
               EXCEPT !.failed = IF answer = "raise"
                                 THEN {"check_medicine_time"} ELSE {},
                      !.evals = 1]
    /\ UNCHANGED <<users, schedules, logged_in, user, vectorstore,
                   recognized_speech, reminders, engine, locals>>

AutoCheckIteration(s, answer, busy) ==
    /\ pc[s] = "autoloop"
    /\ busy = (answer # "raise" /\ isBusy)
    /\ pc' = IF answer = "raise" THEN [pc EXCEPT ![s] = "idle"]
             ELSE IF ~busy THEN [pc EXCEPT ![s] = "say"]
             ELSE pc
    /\ locals' = IF answer # "raise" /\ ~busy
                 THEN [locals EXCEPT ![s] = SpeakLocals("loop", TRUE, answer)]
                 ELSE locals
    /\ run' = [RunRecord(s, "Upload", "auto_check",
                         [answer |-> answer, busy |-> busy], logged_in[s],
                         {"check_medicine_time"},
                         IF answer = "raise" THEN {} ELSE {answer},
                         IF answer = "raise" THEN "uncaught" ELSE "looping",
                         "Upload", "Upload")
               EXCEPT !.failed = IF answer = "raise"
                                 THEN {"check_medicine_time"} ELSE {},
                      !.evals = 1]
    /\ UNCHANGED <<users, schedules, logged_in, user, vectorstore,
                   recognized_speech, reminders, engine>>

(* The session interacts while its run is in the loop: Streamlit notes    *)
(* the request, and the next st.write of the run (line 712) raises the    *)
(* exception that stops the script; the interaction gets its own run.     *)
Rerun(s) ==
    /\ pc[s] = "autoloop"
    /\ pc' = [pc EXCEPT ![s] = "idle"]
    /\ run' = [RunRecord(s, "Upload", "rerun", NoArgs, logged_in[s],
                         {"check_medicine_time"}, {}, "stopped", "Upload",
                         "Upload")
               EXCEPT !.evals = 1]
    /\ UNCHANGED <<users, schedules, logged_in, user, vectorstore,
                   recognized_speech, reminders, engine, locals>>

(* engine.say and engine.runAndWait (lines 700-701 and 714-715), by a run *)
(* that found isBusy() false.  Nothing holds the engine between the test  *)
(* and these calls: a run of another session may have started to speak.   *)
(* runAndWait on an engine whose loop runs raises RuntimeError, which the *)
(* try of line 694 catches and the loop of line 709 does not.             *)
EngineSay(s) ==
    LET l == locals[s]
        args == [busy |-> isBusy, reminder |-> l.reminder]
    IN  /\ pc[s] = "say"
        /\ IF ~isBusy
           THEN /\ engine' = s
                /\ pc' = [pc EXCEPT ![s] = "runAndWait"]
                /\ run' = RunRecord(s, "Upload", "engine.say", args,
                                    logged_in[s], {"engine.say"}, {},
                                    "running", "Upload", "Upload")
                /\ UNCHANGED locals
           ELSE /\ UNCHANGED engine
                /\ locals' = [locals EXCEPT ![s] = NoLocals]
                /\ pc' = [pc EXCEPT ![s] =
                            IF l.path = "button" /\ l.auto_check
                            THEN "autoloop" ELSE "idle"]
                /\ run' = [RunRecord(s, "Upload", "engine.say", args,
                              logged_in[s], {"engine.say"},
                              IF l.path = "button" THEN {"Error"} ELSE {},
                              IF l.path = "loop" THEN "uncaught"
                              ELSE IF l.auto_check THEN "looping"
                              ELSE "completed",
                              "Upload", "Upload")
                           EXCEPT !.failed = {"engine.runAndWait"}]
        /\ UNCHANGED <<users, schedules, logged_in, user, vectorstore,
                       recognized_speech, reminders>>

(* runAndWait returns when the utterance has ended: the button's run goes *)
(* on to the checkbox of line 706, the loop to the sleep of line 716.     *)
EngineDone(s) ==
    LET l == locals[s]
    IN  /\ pc[s] = "runAndWait"
        /\ engine' = "free"
        /\ locals' = [locals EXCEPT ![s] = NoLocals]
        /\ pc' = [pc EXCEPT ![s] = IF l.auto_check THEN "autoloop"
                                   ELSE "idle"]
        /\ run' = RunRecord(s, "Upload", "engine.runAndWait",
                            [reminder |-> l.reminder], logged_in[s], {}, {},
                            IF l.auto_check THEN "looping" ELSE "completed",
                            "Upload", "Upload")
        /\ UNCHANGED <<users, schedules, logged_in, user, vectorstore,
                       recognized_speech, reminders>>

----------------------------------------------------------------------------
(* Voice Recognition *)
VoiceRun(s) ==
    /\ pc[s] = "idle"
    /\ run' = IF ~VoiceGate(s) THEN Refused(s, "Voice Recognition")
              ELSE RunRecord(s, "Voice Recognition", "none", NoArgs,
                             logged_in[s], {},
                             {}, "completed", "Voice Recognition",
                             "Voice Recognition")
    /\ UNCHANGED <<users, schedules, logged_in, user, vectorstore, pc,
                   recognized_speech, reminders, engine, locals>>

(* "Start Recording": sr.Microphone() and r.listen(source, timeout=3) are *)
(* outside the try; only UnknownValueError and RequestError are caught.   *)
StartRecording(s, mic) ==
    LET rec(ops, msgs, outcome, failed) ==
            [RunRecord(s, "Voice Recognition", "Start Recording",
                       [mic |-> mic], logged_in[s], ops, msgs, outcome,
                       "Voice Recognition", "Voice Recognition")
             EXCEPT !.failed = failed]
    IN  /\ pc[s] = "idle"
        /\ recognized_speech' =
               IF VoiceGate(s) /\ mic \in Transcripts THEN mic
               ELSE recognized_speech
        /\ run' =
             IF ~VoiceGate(s) THEN Refused(s, "Voice Recognition") ELSE
             CASE mic = "no microphone" ->
                    rec({"Microphone"}, {}, "uncaught", {"Microphone"})
               [] mic = "listen timeout" ->
                    rec({"Microphone", "listen"}, {}, "uncaught", {"listen"})
               [] mic = "UnknownValueError" ->
                    rec({"Microphone", "listen", "recognize_google"},
                        {"could not understand the audio"}, "completed",
                        {"recognize_google"})
               [] mic = "RequestError" ->
                    rec({"Microphone", "listen", "recognize_google"},
                        {"Could not request results"}, "completed",
                        {"recognize_google"})
               [] OTHER ->
                    rec({"Microphone", "listen", "recognize_google"},
                        {"Recognized text has been saved"}, "completed", {})
        /\ UNCHANGED <<users, schedules, logged_in, user, vectorstore, pc,
                       reminders, engine, locals>>

----------------------------------------------------------------------------
(* Specifications.  SS is the set of browser sessions that interact.      *)

Navigation(SS) ==
    \/ \E s \in SS : HomeRun(s)
    \/ \E s \in SS : LoginRun(s)
    \/ \E s \in SS : RegisterRun(s)
    \/ \E s \in SS : DashboardRun(s)
    \/ \E s \in SS : ScheduleRun(s)
    \/ \E s \in SS : VoiceRun(s)

LoginOf(SS, UU) ==
    \E s \in SS, u \in UU, p \in Passwords : LoginSubmit(s, u, p)

Login(SS) == LoginOf(SS, Usernames)

Register(SS) ==
    \E s \in SS, u \in Usernames, p \in Passwords, cp \in Passwords :
        RegisterSubmit(s, u, p, cp)

ScheduleForms(SS) ==
    \/ \E s \in SS, e \in FormEntries : AddMedicine(s, e)
    \/ \E s \in SS, n \in MedicineNames, e \in EditEntries :
          UpdateMedicine(s, n, e)
    \/ \E s \in SS, n \in MedicineNames : DeleteMedicine(s, n)

ScheduleRace(SS) ==
    \/ \E s \in SS, n \in MedicineNames, e \in {E2} : UpdateRead(s, n, e)
    \/ \E s \in SS : UpdateWrite(s)

ReminderForms(SS) ==
    \/ \E s \in SS, choice \in MedicineNames, t \in Times :
          SetReminder(s, choice, t)
    \/ \E s \in SS, id \in 1..(MaxReminders + 1), t \in Times,
          d \in EditDosages : UpdateReminder(s, id, t, d)
    \/ \E s \in SS, id \in 1..(MaxReminders + 1) : DeleteReminder(s, id)

UploadVisit(SS) ==
    \E s \in SS : UploadRun(s, None, FALSE, FALSE, NoMedicines, FALSE)

Upload(SS) ==
    \/ \E s \in SS, pdf \in PDFs \cup {None}, click \in BOOLEAN,
          auto_check \in BOOLEAN, answer \in EvalOutcomes, busy \in BOOLEAN :
          UploadRun(s, pdf, click, auto_check, answer, busy)
    \/ \E s \in SS, answer \in EvalOutcomes, busy \in BOOLEAN :
          AutoCheckIteration(s, answer, busy)
    \/ \E s \in SS : EngineSay(s)
    \/ \E s \in SS : EngineDone(s)
    \/ \E s \in SS : Rerun(s)

Voice(SS) ==
    \E s \in SS, mic \in MicOutcomes : StartRecording(s, mic)

(* the whole application *)
Next ==
    \/ Navigation(Sessions) \/ Login(Sessions) \/ Register(Sessions)
    \/ ScheduleForms(Sessions) \/ ScheduleRace(Sessions)
    \/ ReminderForms(Sessions)
    \/ Upload(Sessions) \/ Voice(Sessions)
Spec == Init /\ [][Next]_vars

(* accounts and the gate: every page is visited, nothing is submitted on  *)
(* the pages behind the gate                                              *)
NextAuth ==
    \/ Navigation(Sessions) \/ UploadVisit(Sessions)
    \/ Login(Sessions) \/ Register(Sessions)
SpecAuth == Init /\ [][NextAuth]_vars

(* the schedule of registered users *)
NextSchedule ==
    \/ Login(Sessions)
    \/ \E s \in Sessions : DashboardRun(s)
    \/ \E s \in Sessions : ScheduleRun(s)
    \/ ScheduleForms(Sessions)
SpecSchedule == InitRegistered /\ [][NextSchedule]_vars

(* the prescription and the microphone of registered users *)
NextUpload ==
    \/ Login(Sessions)
    \/ Upload(Sessions)
    \/ \E s \in Sessions : VoiceRun(s)
    \/ Voice(Sessions)
SpecUpload == InitRegistered /\ [][NextUpload]_vars

(* one session of a registered user through every page, the forms of the *)
(* schedule, the upload and the microphone                                *)
OneSession == {"s1"}
NextPages ==
    \/ Navigation(OneSession) \/ LoginOf(OneSession, {"alice"})
    \/ ScheduleForms(OneSession) \/ Upload(OneSession) \/ Voice(OneSession)
SpecPages == InitRegistered /\ [][NextPages]_vars

(* one session from a fresh database: accounts, pages, and the schedule   *)
(* store                                                                  *)
NextSession ==
    \/ Navigation(OneSession) \/ UploadVisit(OneSession)
    \/ Login(OneSession) \/ Register(OneSession)
    \/ \E s \in OneSession, e \in {E1, E4} : AddMedicine(s, e)
    \/ \E s \in OneSession, n \in MedicineNames : DeleteMedicine(s, n)
SpecSession == Init /\ [][NextSession]_vars

(* two sessions of one registered user on the schedule, the Update       *)
(* submission in its two steps                                            *)
NextRace ==
    \/ LoginOf(Sessions, {"alice"})
    \/ \E s \in Sessions, e \in {E1, E3} : AddMedicine(s, e)
    \/ \E s \in Sessions, n \in MedicineNames : DeleteMedicine(s, n)
    \/ ScheduleRace(Sessions)
SpecRace == InitRegistered /\ [][NextRace]_vars

(* the reminders of a registered user *)
NextReminders ==
    \/ LoginOf(OneSession, {"alice"})
    \/ \E s \in OneSession, e \in {E2, E3} : AddMedicine(s, e)
    \/ \E s \in OneSession, n \in MedicineNames : DeleteMedicine(s, n)
    \/ ReminderForms(OneSession)
SpecReminders == InitRegistered /\ [][NextReminders]_vars

----------------------------------------------------------------------------
(* Properties *)

Contains(seq, e) == \E i \in 1..Len(seq) : seq[i] = e

(* C1: once a username is registered, every later registration of it     *)
(* fails with 'Username already exists!' and the stored password stays:   *)
(* a login with the stored password succeeds, a login with any other      *)
(* password does not.                                                     *)
C1_SecondRegistrationFails ==
    [][\A u \in Usernames : users[u] # None =>
         /\ users'[u] = users[u]
         /\ (/\ run'.event = "Register"
             /\ run'.args.username = u
             /\ run'.args.password = run'.args.confirm_password)
            => /\ "register_user" \in run'.ops
               /\ run'.msgs = {"Username already exists!"}
         /\ login_user(users', u, users[u]) # NoRecord
         /\ \A p2 \in Passwords \ {users[u]} :
                login_user(users', u, p2) = NoRecord
         /\ (run'.event = "Login" /\ run'.args.username = u)
            => IF run'.args.password = users[u]
               THEN logged_in'[run'.sess] /\ user'[run'.sess] = u
               ELSE /\ UNCHANGED <<logged_in, user>>
                    /\ run'.msgs = {"Invalid username or password"}
      ]_vars

(* a second registration with another password was refused *)
C1_Witness ==
    /\ run.event = "Register"
    /\ run.msgs = {"Username already exists!"}
    /\ users[run.args.username] # run.args.password

(* C2: the login flag and the user of a session change only in a Login    *)
(* submission of that session whose username and password are a stored    *)
(* pair; a submission with a registered username and another password     *)
(* changes neither.                                                       *)
C2_OnlyMatchingLoginLogsIn ==
    [][\A s \in Sessions :
         (logged_in'[s] # logged_in[s] \/ user'[s] # user[s])
         => /\ run'.event = "Login"
            /\ run'.sess = s
            /\ users[run'.args.username] # None
            /\ users[run'.args.username] = run'.args.password
            /\ logged_in'[s]
            /\ user'[s] = run'.args.username
      ]_vars

(* a login with a registered username and a wrong password, refused *)
C2_Witness ==
    /\ run.event = "Login"
    /\ users[run.args.username] # None
    /\ users[run.args.username] # run.args.password
    /\ run.msgs = {"Invalid username or password"}
    /\ ~logged_in[run.sess]

(* C3: a run of a page behind the gate by a session that is not logged in *)
(* performs no operation at all, and the schedule store, the ingest, the  *)
(* evaluator and the microphone are used only by runs of logged-in        *)
(* sessions.                                                              *)
GatedOps ==
    {"store_medicine_schedule", "get_medicine_schedule",
     "update_medicine_schedule", "delete_medicine_schedule", "get_reminders",
     "ingest", "check_medicine_time", "Microphone", "listen"}

C3_GateBlocksOperations ==
    /\ (run.page \in ProtectedPages /\ ~run.gate) => run.ops = {}
    /\ run.ops \cap GatedOps # {} => run.gate
    /\ \A s \in Sessions :
          ~logged_in[s] => vectorstore[s] = Unset /\ pc[s] = "idle"
    /\ schedules[None] = <<>>

(* the gate refused a run of a session that is not logged in *)
C3_Witness ==
    /\ run.page \in ProtectedPages
    /\ ~run.gate
    /\ run.body = "warning"

(* C4: a page behind the gate, selected by a session that is not logged   *)
(* in, renders the Login form.                                            *)
C4_RedirectRendersLogin ==
    (run.page \in ProtectedPages /\ ~run.gate) => run.body = "Login"

(* C5: a valid Add Medicine submission stores the entry as typed: the    *)
(* schedule the same run lists contains an entry with the same five       *)
(* fields, and every entry of the store stays there, and is listed by     *)
(* every run of its owner that reads the schedule, until an Update or a   *)
(* Delete of its name for that owner.                                     *)
C5_AddedEntryIsListed ==
    [][/\ (/\ run'.event = "Add Medicine"
           /\ Truthy(run'.args.medicine_name)
           /\ Truthy(run'.args.dosage))
          => /\ "store_medicine_schedule" \in run'.ops
             /\ Contains(run'.listed, run'.args)
             /\ Contains(schedules'[user[run'.sess]], run'.args)
       /\ \A u \in Usernames : \A i \in 1..Len(schedules[u]) :
            LET e == schedules[u][i]
                touched == /\ run'.event \in {"Update", "Delete"}
                           /\ user[run'.sess] = u
                           /\ run'.args.name = e.medicine_name
            IN  /\ ~touched => Contains(schedules'[u], e)
                /\ (/\ "get_medicine_schedule" \in run'.ops
                    /\ user[run'.sess] = u)
                   => Contains(run'.listed, e)
      ]_vars

(* an entry was added behind another one and is listed *)
C5_Witness ==
    /\ run.event = "Add Medicine"
    /\ "store_medicine_schedule" \in run.ops
    /\ Len(run.listed) >= 2
    /\ run.listed[Len(run.listed)] = run.args

(* C6: a Delete submission on entry n of user u leaves no entry named n   *)
(* in u's schedule, leaves u's other entries as they were, in order, and  *)
(* leaves every other owner's schedule as it was.                         *)
C6_DeleteRemovesEveryMatch ==
    [][run'.event = "Delete" =>
         LET u == user[run'.sess]
             n == run'.args.name
         IN  /\ n \notin Names(get_medicine_schedule(schedules', u))
             /\ schedules'[u] =
                  SelectSeq(schedules[u], LAMBDA e : e.medicine_name # n)
             /\ \A o \in Owners \ {u} : schedules'[o] = schedules[o]
      ]_vars

(* a Delete removed two entries of one name, kept the user's entry of     *)
(* another name and left another user's entry in place                    *)
C6_Witness ==
    /\ run.event = "Delete"
    /\ Cardinality(Matches(run.listed, run.args.name)) = 2
    /\ \/ Len(schedules[user[run.sess]]) = 1
       \/ \E o \in Usernames \ {user[run.sess]} : schedules[o] # <<>>

(* C7: an upload of a PDF without extractable text ends in a failure of   *)
(* the ingest: no session ever holds an index of zero chunks, and the run *)
(* does not show 'PDF uploaded and processed successfully!'.              *)
C7_NoTextIsIngestFailure ==
    /\ \A s \in Sessions :
          vectorstore[s].kind = "FAISS" => vectorstore[s].chunks # <<>>
    /\ (/\ run.event = "upload"
        /\ PdfReader_ok(run.args.pdf)
        /\ Concat(extract_text(run.args.pdf)) = "")
       => /\ "ingest" \in run.failed
          /\ "PDF uploaded and processed successfully!" \notin run.msgs

(* the scan was uploaded by a session that held the index of an earlier   *)
(* prescription                                                           *)
C7_Witness ==
    /\ run.event = "upload"
    /\ run.args.pdf = "scanned"
    /\ "ingest" \in run.failed
    /\ vectorstore[run.sess].kind = "FAISS"

(* C8: a submission that fails validation calls no store operation and    *)
(* changes nothing: a Register submission with two different passwords,   *)
(* or with an empty username or password, never calls register and never  *)
(* registers; an Add Medicine submission with an empty name or dosage     *)
(* never calls the schedule store.                                        *)
C8_ValidationFailureChangesNothing ==
    /\ (/\ run.event = "Register"
        /\ \/ run.args.password # run.args.confirm_password
           \/ ~Truthy(run.args.username)
           \/ ~Truthy(run.args.password))
       => /\ "register_user" \notin run.ops
          /\ "registered successfully!" \notin run.msgs
    /\ (/\ run.event = "Add Medicine"
        /\ \/ ~Truthy(run.args.medicine_name)
           \/ ~Truthy(run.args.dosage))
       => "store_medicine_schedule" \notin run.ops

(* C9: a failure of check_medicine_time, behind the button or in the      *)
(* automatic check, is caught where it is called and shown as an error,   *)
(* and the call is not made again in that run.                            *)
C9_EvaluatorFailureIsCaught ==
    "check_medicine_time" \in run.failed
    => /\ run.outcome # "uncaught"
       /\ "Error" \in run.msgs
       /\ run.evals = 1

(* C10: no failure of the ingest on Upload, or of the microphone or the   *)
(* transcription on Voice Recognition, ends the run in an uncaught error. *)
C10_NoFailureEndsTheRun ==
    (/\ run.page \in {"Upload", "Voice Recognition"}
     /\ run.failed \cap {"ingest", "Microphone", "listen",
                         "recognize_google"} # {})
    => run.outcome # "uncaught"

(* C11: every reminder a Set Reminder submission stores for user u names  *)
(* a medicine of u's schedule as that same run read it, with the dosage   *)
(* of a schedule entry of that name; a row is added to u's reminders only *)
(* by a Set Reminder submission of u, and with an empty schedule a Set    *)
(* Reminder submission stores nothing.                                    *)
C11_ReminderNamesScheduledMedicine ==
    [][/\ (run'.event = "Set Reminder" /\ "store_reminder" \in run'.ops)
          => LET u == user[run'.sess]
                 row == reminders'[u][Len(reminders'[u])]
             IN  /\ reminders' = [reminders EXCEPT ![u] = Append(@, row)]
                 /\ run'.listed = get_medicine_schedule(schedules, u)
                 /\ row.username = u
                 /\ row.medicine_name \in Names(run'.listed)
                 /\ \E i \in 1..Len(run'.listed) :
                       /\ run'.listed[i].medicine_name = row.medicine_name
                       /\ run'.listed[i].dosage = row.dosage
       /\ (run'.event = "Set Reminder" /\ run'.listed = <<>>)
          => /\ "store_reminder" \notin run'.ops
             /\ reminders' = reminders
       /\ \A u \in Owners :
             Len(reminders'[u]) > Len(reminders[u])
             => /\ run'.event = "Set Reminder"
                /\ "store_reminder" \in run'.ops
                /\ user[run'.sess] = u
                /\ schedules[u] # <<>>
      ]_vars

(* a reminder was stored for the second medicine of a schedule whose      *)
(* first medicine has another dosage                                      *)
C11_Witness ==
    /\ run.event = "Set Reminder"
    /\ "store_reminder" \in run.ops
    /\ Len(run.listed) = 2
    /\ run.listed[1].dosage # run.listed[2].dosage
    /\ LET rows == reminders[user[run.sess]]
       IN  /\ rows # <<>>
           /\ rows[Len(rows)].medicine_name = run.listed[2].medicine_name
           /\ rows[Len(rows)].dosage = run.listed[2].dosage
           /\ rows[Len(rows)].time = "08:05"

(* C12: a successful upload leaves in session vectorstore an index of     *)
(* exactly the chunks of the uploaded PDF, whatever the session held      *)
(* before, and leaves the vectorstore of every other session as it was.   *)
ChunksOf(pdf) ==
    CASE pdf = "rx1" -> <<"Aspirin 1 tablet morning">>
      [] pdf = "rx2" -> <<"Ibuprofen 1 tablet night">>
      [] OTHER -> <<>>

C12_UploadReplacesIndex ==
    [][("PDF uploaded and processed successfully!" \in run'.msgs)
       => LET s == run'.sess
          IN  /\ run'.args.pdf \in {"rx1", "rx2"}
              /\ vectorstore'[s].kind = "FAISS"
              /\ vectorstore'[s].chunks = ChunksOf(run'.args.pdf)
              /\ \A o \in Sessions \ {s} : vectorstore'[o] = vectorstore[o]
      ]_vars

(* a session uploaded the second prescription while the other session     *)
(* held the index of the first                                            *)
C12_Witness ==
    /\ run.event = "upload"
    /\ run.args.pdf = "rx2"
    /\ "PDF uploaded and processed successfully!" \in run.msgs
    /\ vectorstore[run.sess].chunks = ChunksOf("rx2")
    /\ \E o \in Sessions \ {run.sess} :
          vectorstore[o].chunks = ChunksOf("rx1")

(* C13: engine.say and engine.runAndWait, behind the button and in the    *)
(* automatic check, are called only while the engine is not busy: no      *)
(* utterance is started while another is in progress.                     *)
C13_SpeechOnlyWhileFree ==
    run.event = "engine.say" => ~run.args.busy

(* a run of session s with the automatic check ticked is under way: in   *)
(* the loop, or speaking the button's answer on its way to the loop       *)
InLoop(s) ==
    \/ pc[s] = "autoloop"
    \/ pc[s] \in {"say", "runAndWait"} /\ locals[s].auto_check

InLoopNext(s) ==
    \/ pc'[s] = "autoloop"
    \/ pc'[s] \in {"say", "runAndWait"} /\ locals'[s].auto_check

LoopEvents == {"auto_check", "engine.say", "engine.runAndWait"}

(* C14: once the automatic check is ticked with an index present the run  *)
(* stays in the loop for as long as no evaluator call fails: it does not  *)
(* complete, and nothing else of that session is processed.               *)
C14_LoopBlocksSession ==
    [][\A s \in Sessions :
         InLoop(s) =>
           /\ run'.sess = s => run'.event \in LoopEvents
           /\ ~InLoopNext(s)
              => run'.sess = s /\ "check_medicine_time" \in run'.failed
      ]_vars

(* C14, amended: a run of the Upload page with the automatic check ticked *)
(* and an index present enters the loop; the loop has no exit of its own  *)
(* and the run leaves it only through an exception raised in its body: by *)
(* the evaluator call or the speech call, which end the run uncaught, or  *)
(* by st.write once the session has interacted, which stops the run for   *)
(* the rerun; until then nothing else of that session is processed.       *)
C14_LoopLeftOnlyByException ==
    [][/\ (/\ run'.page = "Upload"
           /\ run'.event \in {"none", "upload", "Check Medicine Schedule"}
           /\ run'.gate
           /\ run'.args.auto_check)
          => InLoopNext(run'.sess)
       /\ \A s \in Sessions :
            InLoop(s) =>
              /\ run'.sess = s => run'.event \in LoopEvents \cup {"rerun"}
              /\ ~InLoopNext(s)
                 => /\ run'.sess = s
                    /\ \/ /\ run'.outcome = "uncaught"
                          /\ run'.failed \cap {"check_medicine_time",
                                               "engine.runAndWait"} # {}
                       \/ /\ run'.event = "rerun"
                          /\ run'.outcome = "stopped"
      ]_vars

(* a rerun stopped a run that was in the loop *)
C14_Witness ==
    /\ run.event = "rerun"
    /\ run.outcome = "stopped"
    /\ pc[run.sess] = "idle"
    /\ vectorstore[run.sess].kind = "FAISS"

(* C15: an Update submission of entry n is dispatched to the store once  *)
(* its run has read the schedule and found n in it, whatever other        *)
(* sessions of the same user have done to the store since that read: the  *)
(* run lists the schedule it read, does not read again, and the call is   *)
(* made also when a Delete of n by another session has been applied in    *)
(* between.                                                               *)
C15_UpdateDispatchedWithoutRecheck ==
    [][\A s \in Sessions :
         pc[s] = "update" =>
           /\ locals[s].name \in Names(locals[s].schedule)
           /\ \/ pc'[s] = "update" /\ locals'[s] = locals[s]
              \/ /\ run'.sess = s
                 /\ run'.event = "Update"
                 /\ "update_medicine_schedule" \in run'.ops
                 /\ run'.args.name = locals[s].name
                 /\ run'.listed = locals[s].schedule
                 /\ run'.args.present
                      = (locals[s].name \in Names(schedules[user[s]]))
      ]_vars

(* the Update of an entry was dispatched after a Delete by the other      *)
(* session had emptied the schedule the run had read                      *)
C15_Witness ==
    /\ run.event = "Update"
    /\ "update_medicine_schedule" \in run.ops
    /\ run.args.name \in Names(run.listed)
    /\ ~run.args.present
    /\ schedules[user[run.sess]] = <<>>
    /\ \E o \in Sessions \ {run.sess} :
          logged_in[o] /\ user[o] = user[run.sess]

(* C16: a session starts with logged_in False and user None; in every    *)
(* state a logged-in session has a user that is not None, and no step     *)
(* takes a logged-in session back to logged_in False or to user None.     *)
C16_LoginIsMonotone ==
    /\ \A s \in Sessions : ~logged_in[s] /\ user[s] = None
    /\ [][\A s \in Sessions :
            /\ logged_in'[s] => user'[s] # None
            /\ logged_in[s] => logged_in'[s] /\ user'[s] # None
         ]_vars

(* a logged-in session submitted a wrong password and is still logged in  *)
(* as the user it was                                                     *)
C16_Witness ==
    /\ run.event = "Login"
    /\ run.gate
    /\ run.msgs = {"Invalid username or password"}
    /\ logged_in[run.sess]
    /\ user[run.sess] \in Usernames
    /\ user[run.sess] # run.args.username

(* C17: an upload whose ingest fails leaves session vectorstore as it was *)
(* before the upload, None or the index of the PDF uploaded before, and a *)
(* later check, made with the uploader emptied, is evaluated against the  *)
(* index the session held.                                                *)
C17_FailedIngestKeepsIndex ==
    [][LET s == run'.sess
       IN  /\ (run'.event = "upload" /\ "ingest" \in run'.failed)
              => /\ vectorstore'[s] = vectorstore[s]
                 /\ \/ vectorstore'[s] = NoIndex
                    \/ \E p \in {"rx1", "rx2"} :
                          vectorstore'[s] = from_texts(ChunksOf(p))
           /\ (/\ "check_medicine_time" \in run'.ops
               /\ run'.event = "Check Medicine Schedule"
               /\ run'.args.pdf = None)
              => /\ vectorstore'[s] = vectorstore[s]
                 /\ vectorstore'[s].kind = "FAISS"
      ]_vars

(* a file that is no PDF was uploaded by a session that held the index of *)
(* the second prescription, and holds it still                            *)
C17_Witness ==
    /\ run.event = "upload"
    /\ run.args.pdf = "malformed"
    /\ "ingest" \in run.failed
    /\ vectorstore[run.sess] = from_texts(ChunksOf("rx2"))

====
